---- MODULE Spec2Model ----
(***************************************************************************)
(* Model of the Binance futures command-line bot (src/main.py).            *)
(*                                                                         *)
(* One run of main() is a single-shot pipeline:                            *)
(*   validate_args -> credentials -> BinanceFuturesBot(...) (connection    *)
(*   check) -> get_balance -> place_order -> print the result.             *)
(* Every exception raised inside the try block of main is caught by the    *)
(* one handler at the end, which prints the message and exits with 1.      *)
(*                                                                         *)
(* Python values: None is the empty tuple and a present value v is <<v>>,  *)
(* so that "absent", "zero" and "negative" stay distinguishable.  Floats   *)
(* are modelled as integers counted in a fixed smallest unit.  A symbol is *)
(* a sequence of characters over a small ASCII alphabet.                   *)
(***************************************************************************)
EXTENDS Integers, Sequences, FiniteSets, TLC

VARIABLES
    args,       \* argparse.Namespace returned by parse_args()
    pc,         \* position of main()
    calls,      \* network calls made so far, in order
    sent,       \* params handed to futures_create_order: None or <<dict>>
    response,   \* dict returned by futures_create_order: None or <<dict>>
    error,      \* exception caught by main's handler: None or <<exc>>
    printed,    \* lines written to standard output
    log,        \* lines written by self.logger
    exit_code,  \* process exit status: None while running, else <<n>>
    lot,        \* _validate_quantity: inputs (quantity and exchange info)
    rounded     \* _validate_quantity: outcome, None before the call

vars == <<args, pc, calls, sent, response, error, printed, log, exit_code,
          lot, rounded>>

(***************************************************************************)
(* Bounds of the model.                                                    *)
(***************************************************************************)
MaxSymLen == 2
MaxQty == 5
MaxStep == 3

(***************************************************************************)
(* Python values.                                                          *)
(***************************************************************************)
None == <<>>
Some(v) == <<v>>

\* bool(v) for an optional number: None and 0 are falsy, the rest truthy.
Truthy(v) == v # None /\ v[1] # 0

(***************************************************************************)
(* Strings.                                                                *)
(***************************************************************************)
LowerChars == {"a"}
UpperChars == {"A"}
OtherChars == {"1"}
Alphabet == LowerChars \cup UpperChars \cup OtherChars

Strings(n) == UNION {[1..k -> Alphabet] : k \in 0..n}

\* str.upper() on one character and on a string.
UpperChar(c) == IF c = "a" THEN "A" ELSE c
upper(s) == [i \in 1..Len(s) |-> UpperChar(s[i])]

\* Variant of isupper: the check written as "s == s.upper()".
isupper_EqualsUpper(s) == s = upper(s)

\* str.isupper(): at least one cased character and no lowercase one.
isupper(s) ==
    /\ \E i \in 1..Len(s) : s[i] \in UpperChars
    /\ \A i \in 1..Len(s) : s[i] \notin LowerChars

(***************************************************************************)
(* Exceptions.                                                             *)
(***************************************************************************)
ValueError(m) == [cls |-> "ValueError", msg |-> m]

MsgSymbol == "Symbol must be uppercase (e.g., BTCUSDT)"
MsgPrice == "Limit orders require --price"
MsgStopPrice == "Stop orders require --stop_price"
MsgTrailing == "Trailing stop orders require --trailing_delta"
MsgQuantity == "Quantity must be positive"
MsgKeys == "API keys must be provided via CLI or .env file"

ValidationMessages ==
    {MsgSymbol, MsgPrice, MsgStopPrice, MsgTrailing, MsgQuantity}

\* What a call to the exchange client can raise.
ApiException ==
    [cls |-> "BinanceAPIException",
     msg |-> "APIError(code=400): insufficient margin"]
OtherException == [cls |-> "Exception", msg |-> "connection timed out"]
NetworkFailures == {ApiException, OtherException}

(***************************************************************************)
(* validate_args: the first failing check raises; "ok" when none does.     *)
(***************************************************************************)
validate_args(a) ==
    IF ~isupper(a.symbol) THEN MsgSymbol
    ELSE IF a.type = "LIMIT" /\ ~Truthy(a.price) THEN MsgPrice
    ELSE IF a.type = "STOP" /\ ~Truthy(a.stop_price) THEN MsgStopPrice
    ELSE IF a.type = "TRAILING_STOP" /\ ~Truthy(a.trailing_delta)
         THEN MsgTrailing
    ELSE IF a.quantity <= 0 THEN MsgQuantity
    ELSE "ok"

(***************************************************************************)
(* place_order: the request dictionary.                                    *)
(***************************************************************************)
\* Variant of type_map: the STOP entry left unmapped.
type_map_StopUnmapped(t) ==
    CASE t = "TRAILING_STOP" -> "TRAILING_STOP_MARKET"
      [] OTHER -> t

type_map(t) ==
    CASE t = "MARKET" -> "MARKET"
      [] t = "LIMIT" -> "LIMIT"
      [] t = "STOP" -> "STOP_MARKET"
      [] t = "TRAILING_STOP" -> "TRAILING_STOP_MARKET"
      [] OTHER -> t

Timestamps == {1000, 2000}

ParamKeys(price, stop_price, trailing_delta) ==
    {"symbol", "side", "type", "quantity", "timestamp"}
    \cup (IF Truthy(price) THEN {"price", "timeInForce"} ELSE {})
    \cup (IF Truthy(stop_price) THEN {"stopPrice"} ELSE {})
    \cup (IF Truthy(trailing_delta)
          THEN {"activationPrice", "callbackRate", "workingType"} ELSE {})

BuildParams(symbol, side, order_type, quantity, price, stop_price, trailing_delta, now) ==
    [k \in ParamKeys(price, stop_price, trailing_delta) |->
        CASE k = "symbol" -> upper(symbol)
          [] k = "side" -> side
          [] k = "type" -> type_map(order_type)
          [] k = "quantity" -> quantity
          [] k = "timestamp" -> now
          [] k = "price" -> price
          [] k = "timeInForce" -> "GTC"
          [] k = "stopPrice" -> stop_price
          [] k = "activationPrice" -> stop_price
          [] k = "callbackRate" -> trailing_delta
          [] k = "workingType" -> "MARK_PRICE"]

(***************************************************************************)
(* The exchange's answer to an accepted order.                             *)
(***************************************************************************)
RequiredResultKeys ==
    {"orderId", "symbol", "type", "side", "origQty", "status"}
OptionalResultKeys == {"price", "stopPrice"}

OrderResult(params, extra) ==
    [k \in RequiredResultKeys \cup extra |->
        CASE k = "orderId" -> 1
          [] k = "symbol" -> params["symbol"]
          [] k = "type" -> params["type"]
          [] k = "side" -> params["side"]
          [] k = "origQty" -> params["quantity"]
          [] k = "status" -> "NEW"
          [] k = "price" ->
                IF "price" \in DOMAIN params THEN params["price"] ELSE Some(0)
          [] k = "stopPrice" ->
                IF "stopPrice" \in DOMAIN params THEN params["stopPrice"]
                ELSE Some(0)]

\* The lines main prints for an accepted order.
ResultLines(r) ==
    <<<<"Order Result:">>,
      <<"Order ID", r["orderId"]>>,
      <<"Symbol", r["symbol"]>>,
      <<"Type", r["type"]>>,
      <<"Side", r["side"]>>,
      <<"Quantity", r["origQty"]>>,
      <<"Status", r["status"]>> >>
    \o (IF "price" \in DOMAIN r THEN <<<<"Price", r["price"]>>>> ELSE <<>>)
    \o (IF "stopPrice" \in DOMAIN r
        THEN <<<<"Stop Price", r["stopPrice"]>>>> ELSE <<>>)

(***************************************************************************)
(* Inputs.                                                                 *)
(***************************************************************************)
Sides == {"BUY", "SELL"}
Types == {"MARKET", "LIMIT", "STOP", "TRAILING_STOP"}
Quantities == {-1, 0, 1}
Prices == {None, Some(-1), Some(0), Some(1)}
StopPrices == {None, Some(0), Some(2)}
TrailingDeltas == {None, Some(-1), Some(0), Some(1), Some(101)}
Credentials == {None, Some(""), Some("k")}
Balances == {None, Some(0), Some(250)}

Namespaces ==
    [symbol : Strings(MaxSymLen), side : Sides, type : Types,
     quantity : Quantities, price : Prices, stop_price : StopPrices,
     trailing_delta : TrailingDeltas]

NoLot == [quantity |-> 0, found |-> FALSE, minQty |-> 0, maxQty |-> 0,
          stepSize |-> 1]

(***************************************************************************)
(* main: the state after parse_args() returned.                            *)
(***************************************************************************)
Init ==
    /\ args \in Namespaces
    /\ pc = "validate"
    /\ calls = <<>>
    /\ sent = None
    /\ response = None
    /\ error = None
    /\ printed = <<>>
    /\ log = <<>>
    /\ exit_code = None
    /\ lot = NoLot
    /\ rounded = None

\* Variant of the handler: the message is printed but exit(1) is left out.
Abort_NoExit(e, logged) ==
    /\ error' = Some(e)
    /\ log' = log \o logged
    /\ printed' = Append(printed, <<"Error", e.msg>>)
    /\ exit_code' = Some(0)
    /\ pc' = "done"

\* main's handler: "except Exception as e: print(...); exit(1)".
Abort(e, logged) ==
    /\ error' = Some(e)
    /\ log' = log \o logged
    /\ printed' = Append(printed, <<"Error", e.msg>>)
    /\ exit_code' = Some(1)
    /\ pc' = "done"

\* Variant of main: validate_args is called and its exception dropped.
Validate_Ignored ==
    /\ pc = "validate"
    /\ pc' = "config"
    /\ UNCHANGED <<error, log, printed, exit_code>>
    /\ UNCHANGED <<args, calls, sent, response, lot, rounded>>

\* validate_args(args)
Validate ==
    /\ pc = "validate"
    /\ IF validate_args(args) # "ok"
       THEN Abort(ValueError(validate_args(args)), <<>>)
       ELSE /\ pc' = "config"
            /\ UNCHANGED <<error, log, printed, exit_code>>
    /\ UNCHANGED <<args, calls, sent, response, lot, rounded>>

\* api_key = args.api_key or os.getenv(...); likewise api_secret.
PyOr(a, b) == IF a # None /\ a[1] # "" THEN a ELSE b

LoadConfig ==
    /\ pc = "config"
    /\ \E cli_key \in Credentials, env_key \in Credentials,
          cli_secret \in Credentials, env_secret \in Credentials :
          LET api_key == PyOr(cli_key, env_key)
              api_secret == PyOr(cli_secret, env_secret)
              missing(v) == v = None \/ v[1] = ""
          IN IF missing(api_key) \/ missing(api_secret)
             THEN Abort(ValueError(MsgKeys), <<>>)
             ELSE /\ pc' = "connect"
                  /\ UNCHANGED <<error, log, printed, exit_code>>
    /\ UNCHANGED <<args, calls, sent, response, lot, rounded>>

\* BinanceFuturesBot.__init__ -> _initialize_client: client.futures_account()
InitializeClient ==
    /\ pc = "connect"
    /\ calls' = Append(calls, "futures_account")
    /\ \/ /\ log' = log \o <<"connected", "Bot initialized">>
          /\ pc' = "balance"
          /\ UNCHANGED <<error, printed, exit_code>>
       \/ \E e \in NetworkFailures : Abort(e, <<"connection failed">>)
    /\ UNCHANGED <<args, sent, response, lot, rounded>>

\* Variant of get_balance: the exception is logged and swallowed.
GetBalance_Swallow ==
    /\ pc = "balance"
    /\ calls' = Append(calls, "futures_account_balance")
    /\ \/ \E b \in Balances :
             /\ printed' = Append(printed,
                    <<"Available USDT balance",
                      IF b = None THEN 0 ELSE b[1]>>)
             /\ pc' = "place"
             /\ UNCHANGED <<error, log, exit_code>>
       \/ \E e \in NetworkFailures :
             /\ error' = Some(e)
             /\ log' = Append(log, "Failed to get balance")
             /\ pc' = "place"
             /\ UNCHANGED <<printed, exit_code>>
    /\ UNCHANGED <<args, sent, response, lot, rounded>>

\* bot.get_balance() and the balance line
GetBalance ==
    /\ pc = "balance"
    /\ calls' = Append(calls, "futures_account_balance")
    /\ \/ \E b \in Balances :
             /\ printed' = Append(printed,
                    <<"Available USDT balance",
                      IF b = None THEN 0 ELSE b[1]>>)
             /\ pc' = "place"
             /\ UNCHANGED <<error, log, exit_code>>
       \/ \E e \in NetworkFailures : Abort(e, <<"Failed to get balance">>)
    /\ UNCHANGED <<args, sent, response, lot, rounded>>

\* bot.place_order(...): build params, log them, futures_create_order
PlaceOrder ==
    /\ pc = "place"
    /\ \E now \in Timestamps :
          sent' = Some(BuildParams(args.symbol, args.side, args.type,
                                   args.quantity, args.price,
                                   args.stop_price, args.trailing_delta,
                                   now))
    /\ calls' = Append(calls, "futures_create_order")
    /\ \/ \E extra \in SUBSET OptionalResultKeys :
             /\ response' = Some(OrderResult(sent'[1], extra))
             /\ log' = log \o <<"Placing order", "Order placed">>
             /\ pc' = "display"
             /\ UNCHANGED <<error, printed, exit_code>>
       \/ \E e \in NetworkFailures :
             /\ Abort(e, <<"Placing order", "order failed">>)
             /\ UNCHANGED response
    /\ UNCHANGED <<args, lot, rounded>>

\* the "Order Result" block; main returns and the process exits with 0
Display ==
    /\ pc = "display"
    /\ printed' = printed \o ResultLines(response[1])
    /\ exit_code' = Some(0)
    /\ pc' = "done"
    /\ UNCHANGED <<args, calls, sent, response, error, log, lot, rounded>>

Next ==
    \/ Validate
    \/ LoadConfig
    \/ InitializeClient
    \/ GetBalance
    \/ PlaceOrder
    \/ Display

Spec == Init /\ [][Next]_vars

\* main is sequential and every client call returns or raises (the client
\* is built with a 30 second request timeout), so an enabled step is taken.
FairSpec == Spec /\ WF_vars(Next)

(***************************************************************************)
(* _validate_quantity, which main never calls: checked on its own, from    *)
(* every quantity and every LOT_SIZE filter within the bounds.             *)
(***************************************************************************)
Abs(x) == IF x < 0 THEN 0 - x ELSE x

\* round(q / d): Python rounds a tie to the even neighbour.
PyRound(q, d) ==
    LET k == q \div d
        r == q % d
    IN  IF 2 * r < d THEN k
        ELSE IF 2 * r > d THEN k + 1
        ELSE IF k % 2 = 0 THEN k ELSE k + 1

MsgRange == "Quantity must be between min and max"

\* The value returned, or the exception raised, once the exchange info is in.
CheckLotSize(l) ==
    IF ~l.found THEN [raised |-> None, value |-> Some(l.quantity)]
    ELSE IF l.quantity < l.minQty \/ l.quantity > l.maxQty
         THEN [raised |-> Some(ValueError(MsgRange)), value |-> None]
    ELSE [raised |-> None,
          value |-> Some(PyRound(l.quantity, l.stepSize) * l.stepSize)]

LotInputs ==
    {l \in [quantity : 0..(MaxQty + 1), found : BOOLEAN, minQty : 1..MaxQty,
            maxQty : 1..MaxQty, stepSize : 1..MaxStep] :
        l.minQty <= l.maxQty}

DefaultArgs ==
    [symbol |-> <<"A">>, side |-> "BUY", type |-> "MARKET", quantity |-> 1,
     price |-> None, stop_price |-> None, trailing_delta |-> None]

InitQty ==
    /\ args = DefaultArgs
    /\ pc = "validate_quantity"
    /\ calls = <<>>
    /\ sent = None
    /\ response = None
    /\ error = None
    /\ printed = <<>>
    /\ log = <<>>
    /\ exit_code = None
    /\ lot \in LotInputs
    /\ rounded = None

ValidateQuantity ==
    /\ pc = "validate_quantity"
    /\ calls' = Append(calls, "futures_exchange_info")
    /\ \/ rounded' = Some(CheckLotSize(lot))
       \/ \E e \in NetworkFailures :
             rounded' = Some([raised |-> Some(e), value |-> None])
    /\ pc' = "returned"
    /\ UNCHANGED <<args, sent, response, error, printed, log, exit_code, lot>>

NextQty == ValidateQuantity

SpecQty == InitQty /\ [][NextQty]_vars

(***************************************************************************)
(* Properties.                                                             *)
(***************************************************************************)
OrderCalls(cs) ==
    Cardinality({i \in DOMAIN cs : cs[i] = "futures_create_order"})

Submitted == sent # None
Params == sent[1]
HasKey(k) == k \in DOMAIN Params

\* validate_args has run and did not raise.
Accepted ==
    /\ pc # "validate"
    /\ error = None \/ error[1].msg \notin ValidationMessages

\* validate_args has run and raised.
Rejected ==
    /\ error # None
    /\ error[1].msg \in ValidationMessages

\* C1: when validate_args rejects the arguments, no network call is made
\* (no futures_account, no balance fetch, no futures_create_order) and the
\* run ends with an error.
C1_NoNetworkCallOnRejection ==
    validate_args(args) # "ok" =>
        /\ calls = <<>>
        /\ sent = None
        /\ pc = "done" => Rejected /\ exit_code = Some(1)

C1_Witness ==
    /\ pc = "done"
    /\ args.type = "LIMIT"
    /\ args.price = None
    /\ error = Some(ValueError(MsgPrice))

\* C2: futures_create_order is invoked at most once in a run, and no
\* network call at all is made once an error has occurred (so no order after
\* a failed validation, credential lookup, connection check or balance
\* fetch, and no retry of a failed submission).
C2_AtMostOneOrderNoneAfterError ==
    [][/\ OrderCalls(calls') <= 1
       /\ error # None => calls' = calls]_vars

C2_Witness ==
    /\ pc = "done"
    /\ error = Some(ApiException)
    /\ calls = <<"futures_account", "futures_account_balance">>

\* Exit status of a run: a finished run exits with 0 exactly when the order
\* was accepted and no error occurred, and with 1 after any error, in which
\* case the last line printed is the error message; a run that has not
\* finished has no exit code and no error.
ExitCodes ==
    /\ pc # "done" => exit_code = None /\ error = None
    /\ pc = "done" =>
          /\ exit_code \in {Some(0), Some(1)}
          /\ exit_code = Some(0) <=> (error = None /\ response # None)
          /\ error # None =>
                /\ exit_code = Some(1)
                /\ printed # <<>>
                /\ printed[Len(printed)] = <<"Error", error[1].msg>>

\* C3: every run terminates, with exit code 0 on success and 1 on any
\* validation or API error, the error message being printed before exiting.
C3_TerminatesWithExitCode == []ExitCodes /\ <>(pc = "done")

C3_Witness ==
    /\ pc = "done"
    /\ OrderCalls(calls) = 1
    /\ error = Some(ApiException)
    /\ exit_code = Some(1)

\* C4: a submitted request carries price only when the type is LIMIT,
\* stopPrice only when it is STOP, the trailing fields only when it is
\* TRAILING_STOP, and each of them when its type requires it.
C4_ExactlyTheFieldsOfTheType ==
    Submitted =>
        /\ HasKey("price") <=> args.type = "LIMIT"
        /\ HasKey("stopPrice") <=> args.type = "STOP"
        /\ HasKey("callbackRate") <=> args.type = "TRAILING_STOP"
        /\ HasKey("activationPrice") <=> args.type = "TRAILING_STOP"
        /\ HasKey("workingType") <=> args.type = "TRAILING_STOP"

\* C5 as stated: the symbol rule accepts s iff s equals s.upper().
C5_AcceptsIffEqualsUpper ==
    pc # "validate" =>
        ((error = None \/ error[1].msg # MsgSymbol)
            <=> args.symbol = upper(args.symbol))

\* C5, amended: the symbol rule accepts s iff s equals s.upper() and s
\* contains at least one cased character (a letter).
C5_AcceptsIffUpperAndCased ==
    pc # "validate" =>
        ((error = None \/ error[1].msg # MsgSymbol)
            <=> /\ args.symbol = upper(args.symbol)
                /\ \E i \in 1..Len(args.symbol) :
                      args.symbol[i] \in LowerChars \cup UpperChars)

C5_Witness ==
    /\ pc = "done"
    /\ args.symbol = <<"1">>
    /\ error = Some(ValueError(MsgSymbol))

\* C6: a LIMIT request passes validate_args only if its price is present
\* and strictly greater than 0.
C6_LimitPricePositive ==
    (Accepted /\ args.type = "LIMIT") =>
        (args.price # None /\ args.price[1] > 0)

\* C7: a submitted request that carries callbackRate has it in 1..100, and
\* every submitted TRAILING_STOP request carries one.
C7_CallbackRateInRange ==
    Submitted =>
        /\ HasKey("callbackRate") =>
              Params["callbackRate"] \in {Some(n) : n \in 1..100}
        /\ args.type = "TRAILING_STOP" => HasKey("callbackRate")

\* C8: with the symbol's LOT_SIZE filter at hand, _validate_quantity raises
\* when q < min or q > max, and otherwise returns the multiple of the step
\* nearest to q, which lies within [min, max].
C8_NearestMultipleWithinRange ==
    (/\ rounded # None
     /\ lot.found
     /\ rounded[1].raised \notin {Some(e) : e \in NetworkFailures})
    =>
        LET q == lot.quantity
            d == lot.stepSize
            r == rounded[1]
        IN  IF q < lot.minQty \/ q > lot.maxQty
            THEN r.raised = Some(ValueError(MsgRange))
            ELSE /\ r.raised = None
                 /\ r.value[1] % d = 0
                 /\ \A m \in 0..(MaxQty + MaxStep + 1) :
                       Abs(r.value[1] - q) <= Abs(m * d - q)
                 /\ lot.minQty <= r.value[1]
                 /\ r.value[1] <= lot.maxQty

\* C9: the rules of the specification, in their order: symbol all-uppercase,
\* LIMIT price present and > 0, STOP stopPrice supplied, TRAILING_STOP
\* trailingDelta supplied, quantity > 0.
RuleViolated(i, a) ==
    CASE i = 1 -> ~isupper(a.symbol)
      [] i = 2 -> a.type = "LIMIT" /\ ~(a.price # None /\ a.price[1] > 0)
      [] i = 3 -> a.type = "STOP" /\ ~Truthy(a.stop_price)
      [] i = 4 -> a.type = "TRAILING_STOP" /\ ~Truthy(a.trailing_delta)
      [] i = 5 -> ~(a.quantity > 0)

RuleMessage(i) ==
    CASE i = 1 -> MsgSymbol
      [] i = 2 -> MsgPrice
      [] i = 3 -> MsgStopPrice
      [] i = 4 -> MsgTrailing
      [] i = 5 -> MsgQuantity

\* C9: validate_args reports the first violated rule in the order symbol,
\* LIMIT price, STOP stopPrice, TRAILING_STOP trailingDelta, quantity, and
\* accepts the arguments iff no rule is violated.
C9_FirstViolatedRuleReported ==
    pc # "validate" =>
        /\ \A i \in 1..5 :
              (RuleViolated(i, args)
                 /\ \A j \in 1..(i - 1) : ~RuleViolated(j, args))
              => error = Some(ValueError(RuleMessage(i)))
        /\ Accepted <=> \A i \in 1..5 : ~RuleViolated(i, args)

WireTypeOf(t) ==
    IF t = "STOP" THEN "STOP_MARKET"
    ELSE IF t = "TRAILING_STOP" THEN "TRAILING_STOP_MARKET"
    ELSE t

\* C10 without its last clause: wire type, timeInForce, workingType and
\* activationPrice of a submitted request.
WireMapping ==
    /\ Params["type"] = WireTypeOf(args.type)
    /\ HasKey("timeInForce") <=> HasKey("price")
    /\ HasKey("timeInForce") => Params["timeInForce"] = "GTC"
    /\ HasKey("callbackRate") =>
          /\ HasKey("workingType") /\ Params["workingType"] = "MARK_PRICE"
          /\ HasKey("activationPrice")
          /\ Params["activationPrice"] = args.stop_price

\* C10 as stated: the mapping above, and a submitted trailing-stop request
\* always has an activation price that is an actual price (not None).
C10_ActivationPriceIsAPrice ==
    Submitted =>
        /\ WireMapping
        /\ HasKey("callbackRate") => Params["activationPrice"] # None

\* C10, amended: the wire type is STOP_MARKET for STOP, TRAILING_STOP_MARKET
\* for TRAILING_STOP and unchanged otherwise; timeInForce is GTC exactly
\* when a price is attached; when a trailing delta is attached workingType
\* is MARK_PRICE and activationPrice is the stop_price argument as passed,
\* which is None when --stop_price was not given.
C10_WireMapping ==
    Submitted =>
        /\ WireMapping
        /\ (HasKey("callbackRate") /\ args.stop_price = None)
              => Params["activationPrice"] = None

C10_Witness ==
    /\ Submitted
    /\ args.type = "TRAILING_STOP"
    /\ args.stop_price = None
    /\ Params["type"] = "TRAILING_STOP_MARKET"
    /\ Params["activationPrice"] = None

====
